---------------------------- MODULE Spec2Model ----------------------------
(***************************************************************************)
(* The memory extension of slim-pa (.pi/extensions/memory/index.ts): the   *)
(* backing file MEMORY.MD and the three tools memory_write, memory_search  *)
(* and memory_get.                                                         *)
(*                                                                         *)
(* Text is a sequence of one-character strings.  A score is the exact      *)
(* rational [num, den] (den > 0) of the number the scorer computes: on     *)
(* lines of up to 120 characters the doubles of the code compare (>, <,    *)
(* equal, the thresholds 0.5 and 0.4) exactly as these rationals do.       *)
(*                                                                         *)
(* A handler contains no await, so a tool call runs to completion: one     *)
(* action per handler.  call holds the call that has returned and that the *)
(* agent runtime has not taken yet (its parameters, the file it found,     *)
(* the value it returned); writes lists the texts appended so far.         *)
(*                                                                         *)
(* Several agent processes may share the working directory.  running holds *)
(* the handlers of the other processes that are between two fs calls: the  *)
(* fs call each is at and the values it has read.  It is empty when one    *)
(* process alone uses the file.                                            *)
(*                                                                         *)
(* The web extension (.pi/extensions/web/index.ts): the handler of         *)
(* web_content awaits a browser five times; one action per await that      *)
(* settles.  browsers counts the chromium processes that are open.         *)
(***************************************************************************)
EXTENDS Integers, Sequences, FiniteSets, TLC

VARIABLES file, call, writes, running, browsers

vars == <<file, call, writes, running, browsers>>

(***************************************************************************)
(* Bounds of the model.                                                    *)
(***************************************************************************)
MaxWrites == 2          \* memory_write calls in one behaviour
MaxWords == 7           \* words of the longest repeated-word text
MaxTokens == 3          \* tokens of a comma-separated or array selector
MaxBrowsers == 3        \* chromium processes open at one time

(***************************************************************************)
(* String primitives of the JavaScript runtime, on the model's alphabet.   *)
(***************************************************************************)
NL == "\n"

Whitespace == {" ", NL}

Min2(a, b) == IF a <= b THEN a ELSE b

Max2(a, b) == IF a >= b THEN a ELSE b

LowerChar(c) == IF c = "A" THEN "a" ELSE IF c = "B" THEN "b" ELSE c

toLowerCase(s) == [i \in 1..Len(s) |-> LowerChar(s[i])]

includes(s, sub) ==
    \E i \in 0..(Len(s) - Len(sub)) : SubSeq(s, i + 1, i + Len(sub)) = sub

endsWith(s, c) == Len(s) > 0 /\ s[Len(s)] = c

\* String.prototype.slice(0, n) for n >= 0
sliceTo(s, n) == SubSeq(s, 1, Min2(n, Len(s)))

\* the least element of a non-empty set of numbers
Least(S) == CHOOSE m \in S : \A x \in S : m <= x

\* index of the first character of s that is in cs, or 0
FirstIn(s, cs) ==
    LET found == {i \in 1..Len(s) : s[i] \in cs}
    IN  IF found = {} THEN 0 ELSE Least(found)

\* index of the first character of s at or after from that is not in cs, or Len(s) + 1
FirstNotIn(s, cs, from) ==
    IF \E i \in from..Len(s) : s[i] \notin cs
    THEN CHOOSE i \in from..Len(s) : s[i] \notin cs /\ \A j \in from..(i - 1) : s[j] \in cs
    ELSE Len(s) + 1

\* String.prototype.split(c) for a one-character separator
RECURSIVE split(_, _)
split(s, c) ==
    LET i == FirstIn(s, {c})
    IN  IF i = 0 THEN <<s>>
        ELSE <<SubSeq(s, 1, i - 1)>> \o split(SubSeq(s, i + 1, Len(s)), c)

\* String.prototype.split(/\s+/)
RECURSIVE splitWords(_)
splitWords(s) ==
    LET i == FirstIn(s, Whitespace)
    IN  IF i = 0 THEN <<s>>
        ELSE <<SubSeq(s, 1, i - 1)>>
                 \o splitWords(SubSeq(s, FirstNotIn(s, Whitespace, i), Len(s)))

\* String.prototype.trim()
trim(s) ==
    LET a == FirstNotIn(s, Whitespace, 1)
    IN  IF a > Len(s) THEN <<>>
        ELSE LET b == CHOOSE k \in a..Len(s) :
                          s[k] \notin Whitespace /\ \A j \in (k + 1)..Len(s) : s[j] \in Whitespace
             IN  SubSeq(s, a, b)

\* number of line breaks in a text
LineBreaks(s) == Cardinality({i \in 1..Len(s) : s[i] = NL})

(***************************************************************************)
(* The backing file: absent, or present with a content.                    *)
(***************************************************************************)
Absent == [exists |-> FALSE, content |-> <<>>]

Present(content) == [exists |-> TRUE, content |-> content]

existsSync(f) == f.exists

\* a read that misses the lines of the latest append (a stale copy of the log)
readStaleCopy(f) ==
    IF ~existsSync(f) THEN <<>>
    ELSE LET lines == split(f.content, NL)
         IN  SubSeq(lines, 1, Len(lines) - 2)

\* readMemoryFile: [] without a file, else the content split on "\n"
readMemoryFile(f) ==
    IF ~existsSync(f) THEN <<>> ELSE split(f.content, NL)

\* Array.prototype.join("\n")
RECURSIVE joinLines(_)
joinLines(lines) ==
    IF Len(lines) = 0 THEN <<>>
    ELSE IF Len(lines) = 1 THEN lines[1]
    ELSE lines[1] \o <<NL>> \o joinLines(Tail(lines))

\* fs.writeFileSync(filePath, lines.join("\n")); no tool calls it
writeMemoryFile(lines) == Present(joinLines(lines))

\* a write that puts the line terminator before the text, not after it
WrittenFileLeading(f, text) ==
    IF ~existsSync(f)
    THEN Present(text)
    ELSE Present(f.content \o <<NL>> \o text)

\* the file after the fs calls of memory_write
WrittenFile(f, text) ==
    IF ~existsSync(f)
    THEN Present(text \o <<NL>>)
    ELSE LET separator == IF endsWith(f.content, NL) THEN <<>> ELSE <<NL>>
         IN  Present(f.content \o separator \o text \o <<NL>>)

(***************************************************************************)
(* distance (fastest-levenshtein): the edit distance, row by row.          *)
(***************************************************************************)
\* the row of the edit-distance table for the character c of the shorter string, from
\* the row prev before it: a cell is reached by a deletion or a substitution from prev,
\* followed by insertions along the row
LevRow(prev, c, a, i) ==
    LET n == Len(prev)
        reach == [k \in 1..n |->
                     IF k = 1 THEN i
                     ELSE Min2(prev[k] + 1,
                               prev[k - 1] + (IF a[k - 1] = c THEN 0 ELSE 1))]
        entered == SubSeq(reach, 1, n)
    IN  SubSeq([j \in 1..n |-> Least({entered[k] + (j - k) : k \in 1..j})], 1, n)

RECURSIVE LevRows(_, _, _, _)
LevRows(a, b, i, prev) ==
    IF i > Len(b) THEN prev[Len(a) + 1]
    ELSE LevRows(a, b, i + 1, LevRow(prev, b[i], a, i))

\* the longer string spans the rows, the shorter one counts them
distance(x, y) ==
    LET a == IF Len(x) < Len(y) THEN y ELSE x
        b == IF Len(x) < Len(y) THEN x ELSE y
    IN  LevRows(a, b, 1, SubSeq([j \in 1..(Len(a) + 1) |-> j - 1], 1, Len(a) + 1))

(***************************************************************************)
(* Scores: exact rationals.                                                *)
(***************************************************************************)
Rat(n, d) == [num |-> n, den |-> d]

Zero == Rat(0, 1)

AddInt(r, k) == Rat(r.num + k * r.den, r.den)

RatLess(a, b) == a.num * b.den < b.num * a.den

RatEq(a, b) == a.num * b.den = b.num * a.den

Positive(r) == r.num > 0

\* Math.round(score * 10), the relevance of a record in tenths
RoundTenths(r) == (20 * r.num + r.den) \div (2 * r.den)

(***************************************************************************)
(* The relevance scorer of memory_search (the body of its loop).           *)
(***************************************************************************)
ExactBase == 10

IdenticalWordBonus == 5

ContainedWordBonus == 2

FuzzyWordBonus == 2

FallbackWeight == 3

FuzzyPrefix == 100

\* the pairs (query word i, line word j) the nested loops visit
WordPairs(queryWords, words) == (1..Len(queryWords)) \X (1..Len(words))

\* if in place of else if: an identical pair earns both bonuses
WordBoundaryBonusBoth(query, lineLower) ==
    LET words == splitWords(lineLower)
        queryWords == splitWords(query)
        identical == {p \in WordPairs(queryWords, words) : words[p[2]] = queryWords[p[1]]}
        contained == {p \in WordPairs(queryWords, words) :
                         \/ includes(words[p[2]], queryWords[p[1]])
                         \/ includes(queryWords[p[1]], words[p[2]])}
    IN  IdenticalWordBonus * Cardinality(identical)
            + ContainedWordBonus * Cardinality(contained)

\* += 5 for each identical pair, else += 2 for each pair where one contains the other
WordBoundaryBonus(query, lineLower) ==
    LET words == splitWords(lineLower)
        queryWords == splitWords(query)
        identical == {p \in WordPairs(queryWords, words) : words[p[2]] = queryWords[p[1]]}
        contained == {p \in WordPairs(queryWords, words) \ identical :
                         \/ includes(words[p[2]], queryWords[p[1]])
                         \/ includes(queryWords[p[1]], words[p[2]])}
    IN  IdenticalWordBonus * Cardinality(identical)
            + ContainedWordBonus * Cardinality(contained)

\* a fallback that weighs the similarity ten times as much
FallbackScoreHeavy(query, lineLower) ==
    LET levDistance == distance(sliceTo(lineLower, FuzzyPrefix), sliceTo(query, FuzzyPrefix))
        maxLen == Max2(Len(lineLower), Len(query))
    IN  IF maxLen > 0 /\ 2 * (maxLen - levDistance) > maxLen
        THEN Rat(10 * FallbackWeight * (maxLen - levDistance), maxLen)
        ELSE Zero

\* similarity * 3 when similarity > 0.5, with similarity = 1 - levDistance / maxLen
FallbackScore(query, lineLower) ==
    LET levDistance == distance(sliceTo(lineLower, FuzzyPrefix), sliceTo(query, FuzzyPrefix))
        maxLen == Max2(Len(lineLower), Len(query))
    IN  IF maxLen > 0 /\ 2 * (maxLen - levDistance) > maxLen
        THEN Rat(FallbackWeight * (maxLen - levDistance), maxLen)
        ELSE Zero

\* only identical words count as close
IdenticalWordPair(qw, lw) == Len(qw) > 0 /\ qw = lw

\* wordDist / wordMaxLen <= 0.4 in place of < 0.4
FuzzyWordPairInclusive(qw, lw) ==
    LET wordDist == distance(qw, lw)
        wordMaxLen == Max2(Len(qw), Len(lw))
    IN  wordMaxLen > 0 /\ 5 * wordDist <= 2 * wordMaxLen

\* wordDist / wordMaxLen < 0.4
FuzzyWordPair(qw, lw) ==
    LET wordDist == distance(qw, lw)
        wordMaxLen == Max2(Len(qw), Len(lw))
    IN  wordMaxLen > 0 /\ 5 * wordDist < 2 * wordMaxLen

\* += 2 for each pair of words that are close
FuzzyWordScore(query, lineLower) ==
    LET queryWords == splitWords(query)
        lineWords == splitWords(lineLower)
    IN  FuzzyWordBonus
            * Cardinality({p \in WordPairs(queryWords, lineWords) :
                              FuzzyWordPair(queryWords[p[1]], lineWords[p[2]])})

\* the score of one line; query is already lower-cased
Score(query, line) ==
    LET lineLower == toLowerCase(line)
    IN  IF includes(lineLower, query)
        THEN Rat(ExactBase + WordBoundaryBonus(query, lineLower), 1)
        ELSE AddInt(FallbackScore(query, lineLower), FuzzyWordScore(query, lineLower))

(***************************************************************************)
(* Tool results: the message the content carries, the isError flag and the *)
(* records a JSON body lists.                                              *)
(***************************************************************************)
Result(msg, isError, n, records) ==
    [msg |-> msg, isError |-> isError, n |-> n, records |-> records]

WriteOk == Result("Successfully appended", FALSE, 0, <<>>)

WriteError == Result("Error writing to memory", TRUE, 0, <<>>)

(***************************************************************************)
(* Inputs.                                                                 *)
(***************************************************************************)
\* w repeated n times, single spaces between
RECURSIVE Repeat(_, _)
Repeat(w, n) == IF n <= 1 THEN w ELSE w \o <<" ">> \o Repeat(w, n - 1)

Texts ==
    { <<>>,
      <<"A", "b">>,
      <<"a", " ", "b">>,
      <<"x", "a", " ", "b", "y">>,
      <<"a", NL, "b">>,
      Repeat(<<"a">>, MaxWords) }

\* a log of three sentences, written by hand without a final line terminator
ApplesLine == <<"a", "p", "p", "l", "e", "s", " ", "a", "r", "e", " ", "r", "e", "d">>

BananasLine ==
    <<"b", "a", "n", "a", "n", "a", "s", " ", "a", "r", "e", " ",
      "y", "e", "l", "l", "o", "w">>

GrapesLine ==
    <<"g", "r", "a", "p", "e", "s", " ", "a", "r", "e", " ",
      "p", "u", "r", "p", "l", "e">>

FruitLog == Present(ApplesLine \o <<NL>> \o BananasLine \o <<NL>> \o GrapesLine)

\* the file may have been written by hand: empty, or without a final line terminator
InitialFiles ==
    { Absent,
      Present(<<>>),
      Present(<<"a", NL, "b", NL, "a", "b">>) }

\* the fs calls of a handler succeed, or one of them throws (the handler's catch)
FsOutcomes == {"ok", "throws"}

(***************************************************************************)
(* memory_write                                                            *)
(***************************************************************************)
\* no tool call has returned a result that the agent has not taken yet
Idle == [op |-> "none"]

\* one agent process only: no other process is inside a handler
NoProcess == <<>>

\* A handler has no await: it runs to completion before the next one starts.
memory_write(text, fs) ==
    /\ call = Idle
    /\ Len(writes) < MaxWrites
    /\ IF fs = "ok"
       THEN /\ file' = WrittenFile(file, text)
            /\ writes' = Append(writes, text)
            /\ call' = [op |-> "memory_write", text |-> text, fs |-> fs,
                        pre |-> file, result |-> WriteOk]
       ELSE /\ UNCHANGED <<file, writes>>
            /\ call' = [op |-> "memory_write", text |-> text, fs |-> fs,
                        pre |-> file, result |-> WriteError]
    /\ UNCHANGED <<running, browsers>>

(***************************************************************************)
(* memory_search                                                           *)
(***************************************************************************)
DefaultMaxResults == 10

\* a tool parameter that may be missing
Missing == [given |-> FALSE, val |-> 0]

Given(v) == [given |-> TRUE, val |-> v]

\* (params.max_results as number) || 10
EffectiveMaxResults(max_results) ==
    IF ~max_results.given \/ max_results.val = 0 THEN DefaultMaxResults ELSE max_results.val

\* score >= 0 in place of score > 0
IsMatchOrZero(score) == score.num >= 0

\* score > 0
IsMatch(score) == Positive(score)

\* lineNumber: i in place of i + 1
ScoreLinesZeroBased(lines, query) ==
    LET scored == [i \in 1..Len(lines) |->
                      [lineNumber |-> i - 1, line |-> lines[i], score |-> Score(query, lines[i])]]
    IN  SelectSeq(scored, LAMBDA m : IsMatch(m.score))

\* the matches in line order: every line whose score is positive
ScoreLines(lines, query) ==
    LET scored == [i \in 1..Len(lines) |->
                      [lineNumber |-> i, line |-> lines[i], score |-> Score(query, lines[i])]]
    IN  SelectSeq(scored, LAMBDA m : IsMatch(m.score))

\* a sort that puts a match before the earlier matches of equal score
InsertPositionUnstable(sorted, m) ==
    Cardinality({k \in 1..Len(sorted) : RatLess(m.score, sorted[k].score)})

\* where the stable sort by (a, b) => b.score - a.score puts m among the sorted
\* matches that precede it in the array: after every match that scores as much or more
InsertPosition(sorted, m) ==
    Cardinality({k \in 1..Len(sorted) : ~RatLess(sorted[k].score, m.score)})

InsertMatch(sorted, m) ==
    LET p == InsertPosition(sorted, m)
    IN  SubSeq(sorted, 1, p) \o <<m>> \o SubSeq(sorted, p + 1, Len(sorted))

\* matches.sort((a, b) => b.score - a.score)
RECURSIVE SortMatches(_, _)
SortMatches(matches, n) ==
    IF n = 0 THEN <<>> ELSE InsertMatch(SortMatches(matches, n - 1), matches[n])

\* no truncation: the whole sorted array
sliceAll(arr, end) == arr

\* Array.prototype.slice(0, end)
slice0(arr, end) ==
    LET to == IF end < 0 THEN Max2(Len(arr) + end, 0) ELSE Min2(end, Len(arr))
    IN  SubSeq(arr, 1, to)

topMatches(lines, query, maxResults) ==
    LET matches == ScoreLines(lines, query)
    IN  slice0(SortMatches(matches, Len(matches)), maxResults)

\* the records of the JSON body; score is m.score, relevance its rounding in tenths
FormatMatches(top) ==
    [k \in 1..Len(top) |->
        [line |-> top[k].lineNumber, text |-> top[k].line,
         score |-> top[k].score, relevance |-> RoundTenths(top[k].score)]]

NoFileSearchResult == Result("No memory file found", FALSE, 0, <<>>)

\* the no-matches notice flagged as an error
NoMatchesAsError == Result("No matches found", TRUE, 0, <<>>)

NoMatchesResult == Result("No matches found", FALSE, 0, <<>>)

SearchResult(f, rawQuery, max_results, fs) ==
    LET query == toLowerCase(rawQuery)
        maxResults == EffectiveMaxResults(max_results)
    IN  IF existsSync(f) /\ fs = "throws"
        THEN Result("Error searching memory", TRUE, 0, <<>>)
        ELSE LET lines == readMemoryFile(f)
                 top == topMatches(lines, query, maxResults)
             IN  IF Len(lines) = 0 THEN NoFileSearchResult
                 ELSE IF Len(top) = 0 THEN NoMatchesResult
                 ELSE Result("json", FALSE, 0, FormatMatches(top))

Queries ==
    { <<>>,
      <<"a">>,
      <<"a", "B">>,
      <<"a", " ", "b">>,
      <<"a", "p", "l", "e">>,
      <<"a", "r", "e", "n", "a">> }

MaxResultsInputs == {Missing, Given(0), Given(-1), Given(1), Given(2), Given(10)}

memory_search(query, max_results, fs) ==
    /\ call = Idle
    /\ call' = [op |-> "memory_search", query |-> query, max_results |-> max_results,
                fs |-> fs, pre |-> file,
                result |-> SearchResult(file, query, max_results, fs)]
    /\ UNCHANGED <<file, writes, running, browsers>>

(***************************************************************************)
(* memory_get                                                              *)
(***************************************************************************)
Digits == <<"0", "1", "2", "3", "4", "5", "6", "7", "8", "9">>

DigitValue(c) == (CHOOSE d \in 1..10 : Digits[d] = c) - 1

NaN == [nan |-> TRUE, val |-> 0]

Num(v) == [nan |-> FALSE, val |-> v]

RECURSIVE DecimalValue(_)
DecimalValue(ds) ==
    IF Len(ds) = 0 THEN 0
    ELSE 10 * DecimalValue(SubSeq(ds, 1, Len(ds) - 1)) + DigitValue(ds[Len(ds)])

\* parseInt(s, 10): leading white space, an optional sign, the longest run of digits
parseInt(s) ==
    LET a == FirstNotIn(s, Whitespace, 1)
        signed == a <= Len(s) /\ s[a] \in {"+", "-"}
        b == IF signed THEN a + 1 ELSE a
        e == FirstNotIn(s, {Digits[d] : d \in 1..10}, b)
    IN  IF e = b THEN NaN
        ELSE IF signed /\ s[a] = "-" THEN Num(0 - DecimalValue(SubSeq(s, b, e - 1)))
        ELSE Num(DecimalValue(SubSeq(s, b, e - 1)))

\* a parse that gives up on the whole list when one token is NaN
NoneIfAnyNaN(ns) ==
    IF \E k \in 1..Len(ns) : ns[k].nan THEN <<>> ELSE [k \in 1..Len(ns) |-> ns[k].val]

\* the numbers of a sequence of parsed tokens that are not NaN
RECURSIVE NotNaN(_)
NotNaN(ns) ==
    IF Len(ns) = 0 THEN <<>>
    ELSE (IF ns[1].nan THEN <<>> ELSE <<ns[1].val>>) \o NotNaN(Tail(ns))

\* for (let i = start; i <= end; i++) lineNumbers.push(i)
RangeNumbers(start, end) == [k \in 1..(end - start + 1) |-> start + k - 1]

\* a string selector
StringInput(str) == [form |-> "string", str |-> str, arr |-> <<>>]

\* an array selector
ArrayInput(arr) == [form |-> "array", str |-> <<>>, arr |-> arr]

\* the lineNumbers array after the parse
ParseLines(linesInput) ==
    IF linesInput.form = "string"
    THEN LET trimmed == trim(linesInput.str)
             parsed(parts) == [k \in 1..Len(parts) |-> parseInt(trim(parts[k]))]
         IN  IF includes(trimmed, <<"-">>)
             THEN LET ns == parsed(split(trimmed, "-"))
                  IN  IF ~ns[1].nan /\ ~ns[2].nan
                      THEN RangeNumbers(ns[1].val, ns[2].val)
                      ELSE <<>>
             ELSE IF includes(trimmed, <<",">>)
             THEN NotNaN(parsed(split(trimmed, ",")))
             ELSE NotNaN(<<parseInt(trimmed)>>)
    ELSE linesInput.arr

\* [...new Set(lineNumbers)].sort((a, b) => a - b)
SortedSet(S) ==
    [k \in 1..Cardinality(S) |-> CHOOSE x \in S : Cardinality({y \in S : y < x}) = k - 1]

\* the parsed numbers as they are, neither deduplicated nor sorted
lineNumbersAsParsed(lineNumbers) == lineNumbers

uniqueLines(lineNumbers) == SortedSet({lineNumbers[k] : k \in 1..Len(lineNumbers)})

\* lineNum < allLines.length in place of lineNum <= allLines.length
InRangeShort(lineNum, allLines) == lineNum >= 1 /\ lineNum < Len(allLines)

\* lineNum >= 1 && lineNum <= allLines.length
InRange(lineNum, allLines) == lineNum >= 1 /\ lineNum <= Len(allLines)

Retrieve(nums, allLines) ==
    LET kept == SelectSeq(nums, LAMBDA lineNum : InRange(lineNum, allLines))
    IN  [k \in 1..Len(kept) |-> [line |-> kept[k], text |-> allLines[kept[k]]]]

NoFileGetResult == Result("No memory file found", FALSE, 0, <<>>)

\* the invalid-selector result without the error flag
InvalidSelectorUnflagged == Result("Invalid line specification", FALSE, 0, <<>>)

InvalidSelectorResult == Result("Invalid line specification", TRUE, 0, <<>>)

\* an empty retrieval reported as an invalid line specification
NoneInRangeAsInvalid(n) == InvalidSelectorResult

NoneInRangeResult(n) == Result("No valid lines found", FALSE, n, <<>>)

GetResult(f, linesInput, fs) ==
    IF existsSync(f) /\ fs = "throws"
    THEN Result("Error retrieving memory", TRUE, 0, <<>>)
    ELSE LET allLines == readMemoryFile(f)
             lineNumbers == ParseLines(linesInput)
             results == Retrieve(uniqueLines(lineNumbers), allLines)
         IN  IF Len(allLines) = 0 THEN NoFileGetResult
             ELSE IF Len(lineNumbers) = 0 THEN InvalidSelectorResult
             ELSE IF Len(results) = 0 THEN NoneInRangeResult(Len(allLines))
             ELSE Result("json", FALSE, 0, results)

\* tokens of the string selectors
NumberTokens == { <<"0">>, <<"1">>, <<"2">>, <<"3">>, <<"1", "0">>, <<"5", "0">> }

OtherTokens == { <<>>, <<"a">>, <<"2", "a">>, <<" ", "3", " ">>, <<"a", "b", "c">> }

ListTokens == { <<"2">>, <<"5">>, <<"a">> }

RangeStarts == { <<"0">>, <<"2">>, <<"3">>, <<"5", "0">>, <<"a">>, <<>> }

RangeEnds == { <<"1">>, <<"3">>, <<"1", "0">>, <<"5", "0">>, <<"a">>, <<>> }

RECURSIVE JoinTokens(_, _)
JoinTokens(toks, sep) ==
    IF Len(toks) = 1 THEN toks[1]
    ELSE toks[1] \o <<sep>> \o JoinTokens(Tail(toks), sep)

TokenLists(S) == UNION {[1..n -> S] : n \in 2..MaxTokens}

StringSelectors ==
    (NumberTokens \cup OtherTokens)
    \cup {JoinTokens(<<t1, t2>>, "-") : t1 \in RangeStarts, t2 \in RangeEnds}
    \cup {JoinTokens(ts, ",") : ts \in TokenLists(ListTokens)}
    \cup { <<"1", "-", "2", "-", "3">> }

ArraySelectors == {<<>>, <<0>>, <<2>>, <<5>>} \cup TokenLists({2, 5})

LinesInputs ==
    {StringInput(str) : str \in StringSelectors} \cup {ArrayInput(arr) : arr \in ArraySelectors}

\* memory_get writing back the lines it has read
memory_get_rewriting(lines, fs) ==
    /\ call = Idle
    /\ call' = [op |-> "memory_get", lines |-> lines, fs |-> fs, pre |-> file,
                result |-> GetResult(file, lines, fs)]
    /\ file' = writeMemoryFile(readMemoryFile(file))
    /\ UNCHANGED <<writes, running, browsers>>

memory_get(lines, fs) ==
    /\ call = Idle
    /\ call' = [op |-> "memory_get", lines |-> lines, fs |-> fs, pre |-> file,
                result |-> GetResult(file, lines, fs)]
    /\ UNCHANGED <<file, writes, running, browsers>>

\* the agent runtime takes the result of the call
Return ==
    /\ call # Idle
    /\ call' = Idle
    /\ UNCHANGED <<file, writes, running, browsers>>

Init ==
    /\ file \in InitialFiles
    /\ writes = <<>>
    /\ call = Idle
    /\ running = NoProcess
    /\ browsers = 0

Next ==
    \/ \E text \in Texts, fs \in FsOutcomes : memory_write(text, fs)
    \/ \E query \in Queries, max_results \in MaxResultsInputs, fs \in FsOutcomes :
           memory_search(query, max_results, fs)
    \/ \E lines \in LinesInputs, fs \in FsOutcomes : memory_get(lines, fs)
    \/ Return

Spec == Init /\ [][Next]_vars

\* the tools on the log of three sentences
FruitInit ==
    /\ file = FruitLog
    /\ writes = <<>>
    /\ call = Idle
    /\ running = NoProcess
    /\ browsers = 0

FruitSpec == FruitInit /\ [][Next]_vars

\* two lines that agree on their first 100 characters and differ after them
LongPrefix == [i \in 1..FuzzyPrefix |-> "x"]

LongLineApple == LongPrefix \o <<" ", "a", "p", "p", "l", "e">>

LongLineGrape == LongPrefix \o <<" ", "g", "r", "a", "p", "e">>

LongLog == Present(LongLineApple \o <<NL>> \o LongLineGrape \o <<NL>>)

\* the tools on the log of two long lines
LongInit ==
    /\ file = LongLog
    /\ writes = <<>>
    /\ call = Idle
    /\ running = NoProcess
    /\ browsers = 0

LongSpec == LongInit /\ [][Next]_vars

(***************************************************************************)
(* Several processes on one file.  A handler is a sequence of fs calls and *)
(* another process can run between two of them; one step per fs call.      *)
(* fs.writeFileSync opens the file with flag "w", which creates or         *)
(* truncates it, and then writes from position 0: two steps.               *)
(* fs.appendFileSync writes at the end of the file, fs.readFileSync        *)
(* returns the content, fs.existsSync tests the path: one step each.       *)
(***************************************************************************)
Writers == {"w1", "w2"}

Readers == {"r1"}

Processes == Writers \cup Readers

ConcurrentTexts == { <<"c", "d", "e">>, <<"x">> }

ConcurrentFiles ==
    { Absent,
      Present(<<>>),
      Present(<<"a", "b">>),
      Present(<<"a", "b", NL>>) }

\* a process outside a handler; inside one: the fs call it is at (pc), the text
\* of the write, the file when the call started, the content it has read, and
\* for a reader the lines readMemoryFile returned
NotStarted ==
    [pc |-> "idle", text |-> <<>>, pre |-> Absent, content |-> <<>>, lines |-> <<>>]

At(p, pc) == running.proc[p].pc = pc

Goto(p, rec) == running' = [running EXCEPT !.proc[p] = rec]

\* the bytes of data written from position 0 over the content
WriteAtStart(content, data) == data \o SubSeq(content, Len(data) + 1, Len(content))

\* memory_write is called: const text = params.text
WriterStart(p, text) ==
    /\ At(p, "idle")
    /\ Goto(p, [NotStarted EXCEPT !.pc = "existsSync", !.text = text, !.pre = file])
    /\ UNCHANGED <<file, call, writes, browsers>>

\* if (!fs.existsSync(filePath))
WriterExists(p) ==
    /\ At(p, "existsSync")
    /\ Goto(p, [running.proc[p] EXCEPT
                    !.pc = IF existsSync(file) THEN "readFileSync" ELSE "writeFileSync"])
    /\ UNCHANGED <<file, call, writes, browsers>>

\* fs.writeFileSync(filePath, text + "\n"): the open with flag "w"
WriterCreate(p) ==
    /\ At(p, "writeFileSync")
    /\ file' = Present(<<>>)
    /\ Goto(p, [running.proc[p] EXCEPT !.pc = "write"])
    /\ UNCHANGED <<call, writes, browsers>>

\* fs.writeFileSync(filePath, text + "\n"): the write from position 0; the handler returns
WriterWrite(p) ==
    /\ At(p, "write")
    /\ file' = Present(WriteAtStart(file.content, running.proc[p].text \o <<NL>>))
    /\ writes' = Append(writes, running.proc[p].text)
    /\ Goto(p, [running.proc[p] EXCEPT !.pc = "returned"])
    /\ UNCHANGED <<call, browsers>>

\* const content = fs.readFileSync(filePath, "utf-8")
WriterRead(p) ==
    /\ At(p, "readFileSync")
    /\ Goto(p, [running.proc[p] EXCEPT !.pc = "appendFileSync", !.content = file.content])
    /\ UNCHANGED <<file, call, writes, browsers>>

\* fs.appendFileSync(filePath, separator + text + "\n"); the handler returns
WriterAppend(p) ==
    /\ At(p, "appendFileSync")
    /\ LET separator == IF endsWith(running.proc[p].content, NL) THEN <<>> ELSE <<NL>>
       IN  file' = Present(file.content \o separator \o running.proc[p].text \o <<NL>>)
    /\ writes' = Append(writes, running.proc[p].text)
    /\ Goto(p, [running.proc[p] EXCEPT !.pc = "returned"])
    /\ UNCHANGED <<call, browsers>>

\* memory_search or memory_get is called: readMemoryFile()
ReaderStart(p) ==
    /\ At(p, "idle")
    /\ Goto(p, [NotStarted EXCEPT !.pc = "existsSync", !.pre = file])
    /\ UNCHANGED <<file, call, writes, browsers>>

\* if (!fs.existsSync(filePath)) return []
ReaderExists(p) ==
    /\ At(p, "existsSync")
    /\ Goto(p, [running.proc[p] EXCEPT
                    !.pc = IF existsSync(file) THEN "readFileSync" ELSE "returned"])
    /\ UNCHANGED <<file, call, writes, browsers>>

\* return fs.readFileSync(filePath, "utf-8").split("\n")
ReaderRead(p) ==
    /\ At(p, "readFileSync")
    /\ Goto(p, [running.proc[p] EXCEPT
                    !.pc = "returned", !.content = file.content,
                    !.lines = split(file.content, NL)])
    /\ UNCHANGED <<file, call, writes, browsers>>

ConcurrentInit ==
    /\ file \in ConcurrentFiles
    /\ writes = <<>>
    /\ call = Idle
    /\ running = [initial |-> file, proc |-> [p \in Processes |-> NotStarted]]
    /\ browsers = 0

ConcurrentNext ==
    \/ \E p \in Writers, text \in ConcurrentTexts : WriterStart(p, text)
    \/ \E p \in Writers : WriterExists(p)
    \/ \E p \in Writers : WriterCreate(p)
    \/ \E p \in Writers : WriterWrite(p)
    \/ \E p \in Writers : WriterRead(p)
    \/ \E p \in Writers : WriterAppend(p)
    \/ \E p \in Readers : ReaderStart(p)
    \/ \E p \in Readers : ReaderExists(p)
    \/ \E p \in Readers : ReaderRead(p)

ConcurrentSpec == ConcurrentInit /\ [][ConcurrentNext]_vars

(***************************************************************************)
(* web_content.  The handler is async: it runs to its next await, and the  *)
(* promise it awaits is fulfilled or rejected by the browser.  call.pc is  *)
(* the promise awaited, call.browser whether the local variable browser    *)
(* is set, call.process the chromium process this call has launched.       *)
(***************************************************************************)
Https == <<"h", "t", "t", "p", "s", ":", "/", "/">>

Http == <<"h", "t", "t", "p", ":", "/", "/">>

StartsWith(s, prefix) == Len(s) >= Len(prefix) /\ SubSeq(s, 1, Len(prefix)) = prefix

\* if (!/^https?:\/\//i.test(url)) url = "https://" + url, on lower-case input
EnsureProtocol(urlInput) ==
    IF StartsWith(urlInput, Http) \/ StartsWith(urlInput, Https)
    THEN urlInput
    ELSE Https \o urlInput

Urls == { <<"a">>, Http \o <<"a">>, Https \o <<"a">> }

\* const maxLength = 100000
MaxContentLength == 100000

\* "\n\n[Content truncated...]".length
TruncationNoteLength == 24

\* the length of finalContent for a textContent of the given length
FinalContentLength(textLength) ==
    IF textLength > MaxContentLength
    THEN MaxContentLength + TruncationNoteLength
    ELSE textLength

TextLengths == {0, MaxContentLength, MaxContentLength + 1}

\* an awaited promise is fulfilled or rejected
Settled == {"fulfilled", "rejected"}

\* browser.close(): fulfilled once the process has ended; when it is rejected the
\* process may have ended or may still be open
CloseOutcomes == {"fulfilled", "rejectedEnded", "rejectedOpen"}

WebResult(msg, isError, url, length) ==
    [msg |-> msg, isError |-> isError, url |-> url, length |-> length]

WebError(c) == WebResult("Error extracting content", TRUE, c.url, 0)

\* the process after browser.close() has settled
ProcessAfterClose(outcome) == IF outcome = "rejectedOpen" THEN "open" ELSE "ended"

\* the handler is called and runs to await puppeteer.launch(...)
web_content(urlInput) ==
    /\ call = Idle
    /\ browsers < MaxBrowsers
    /\ call' = [op |-> "web_content", pc |-> "launch", url |-> EnsureProtocol(urlInput),
                browser |-> FALSE, process |-> "none", length |-> 0,
                result |-> WebResult("", FALSE, <<>>, 0)]
    /\ UNCHANGED <<file, writes, running, browsers>>

\* browser = await puppeteer.launch(...); rejected: catch with browser undefined
launch(settled) ==
    /\ call.op = "web_content" /\ call.pc = "launch"
    /\ IF settled = "fulfilled"
       THEN /\ call' = [call EXCEPT !.pc = "newPage", !.browser = TRUE, !.process = "open"]
            /\ browsers' = browsers + 1
       ELSE /\ call' = [call EXCEPT !.pc = "returned", !.result = WebError(call)]
            /\ UNCHANGED browsers
    /\ UNCHANGED <<file, writes, running>>

\* catch (error): if (browser) await browser.close()
Catch(c) == [c EXCEPT !.pc = "catchClose"]

\* const page = await browser.newPage()
newPage(settled) ==
    /\ call.op = "web_content" /\ call.pc = "newPage"
    /\ call' = IF settled = "fulfilled" THEN [call EXCEPT !.pc = "goto"] ELSE Catch(call)
    /\ UNCHANGED <<file, writes, running, browsers>>

\* await page.goto(url, { waitUntil: "networkidle2" })
goto(settled) ==
    /\ call.op = "web_content" /\ call.pc = "goto"
    /\ call' = IF settled = "fulfilled" THEN [call EXCEPT !.pc = "evaluate"] ELSE Catch(call)
    /\ UNCHANGED <<file, writes, running, browsers>>

\* const textContent = await page.evaluate(...); finalContent; await browser.close()
evaluate(settled, textLength) ==
    /\ call.op = "web_content" /\ call.pc = "evaluate"
    /\ call' = IF settled = "fulfilled"
               THEN [call EXCEPT !.pc = "close", !.length = FinalContentLength(textLength)]
               ELSE Catch(call)
    /\ UNCHANGED <<file, writes, running, browsers>>

\* await browser.close(); browser = undefined; return { content ... }
close(outcome) ==
    /\ call.op = "web_content" /\ call.pc = "close"
    /\ browsers' = IF ProcessAfterClose(outcome) = "ended" THEN browsers - 1 ELSE browsers
    /\ call' = IF outcome = "fulfilled"
               THEN [call EXCEPT !.pc = "returned", !.browser = FALSE, !.process = "ended",
                                 !.result = WebResult("Extracted content", FALSE,
                                                      call.url, call.length)]
               ELSE [Catch(call) EXCEPT !.process = ProcessAfterClose(outcome)]
    /\ UNCHANGED <<file, writes, running>>

\* try { await browser.close() } catch (closeError) { }; return { ... isError: true }
\* closing a browser whose process has ended leaves it ended
catchClose(outcome) ==
    /\ call.op = "web_content" /\ call.pc = "catchClose"
    /\ LET after == IF call.process = "ended" THEN "ended" ELSE ProcessAfterClose(outcome)
       IN  /\ browsers' = IF call.process = "open" /\ after = "ended"
                          THEN browsers - 1 ELSE browsers
           /\ call' = [call EXCEPT !.pc = "returned", !.process = after,
                                   !.result = WebError(call)]
    /\ UNCHANGED <<file, writes, running>>

\* the agent runtime takes the result of web_content
WebReturn ==
    /\ call.op = "web_content" /\ call.pc = "returned"
    /\ call' = Idle
    /\ UNCHANGED <<file, writes, running, browsers>>

WebInit ==
    /\ file = Absent
    /\ writes = <<>>
    /\ call = Idle
    /\ running = NoProcess
    /\ browsers = 0

WebNext ==
    \/ \E urlInput \in Urls : web_content(urlInput)
    \/ \E settled \in Settled : launch(settled)
    \/ \E settled \in Settled : newPage(settled)
    \/ \E settled \in Settled : goto(settled)
    \/ \E settled \in Settled, textLength \in TextLengths : evaluate(settled, textLength)
    \/ \E outcome \in CloseOutcomes : close(outcome)
    \/ \E outcome \in CloseOutcomes : catchClose(outcome)
    \/ WebReturn

WebSpec == WebInit /\ [][WebNext]_vars

(***************************************************************************)
(* The file that n successive appends produce from a given file.           *)
(***************************************************************************)
RECURSIVE FileAfter(_, _)
FileAfter(f, texts) ==
    IF Len(texts) = 0 THEN f
    ELSE FileAfter(WrittenFile(f, texts[1]), Tail(texts))

WriteSucceeded == call.op = "memory_write" /\ ~call.result.isError

SearchCompleted == call.op = "memory_search" /\ ~call.result.isError

GetCompleted == call.op = "memory_get" /\ call.result.msg # "Error retrieving memory"

Records == call.result.records

RecordLines == {Records[k].line : k \in 1..Len(Records)}

(***************************************************************************)
(* C1: after a successful memory_write(t) of a text t without a line       *)
(* break, whatever the file was before, the sequence readMemoryFile        *)
(* returns has t as its final line.                                        *)
(***************************************************************************)
C1_WrittenTextIsFinalLine ==
    (WriteSucceeded /\ LineBreaks(call.text) = 0)
        => LET lines == readMemoryFile(file)
           IN  Len(lines) > 0 /\ lines[Len(lines)] = call.text

(***************************************************************************)
(* C2: a successful memory_write(t) increases the number of lines read     *)
(* from the log by exactly (line breaks in t) + 1; the first append to an  *)
(* absent log takes the length from 0 to 1.                                *)
(***************************************************************************)
C2_LengthGrowsByLineBreaksPlusOne ==
    WriteSucceeded
        => Len(readMemoryFile(file))
               = Len(readMemoryFile(call.pre)) + LineBreaks(call.text) + 1

(***************************************************************************)
(* C3: the log is append-only: every line number that was valid before a   *)
(* call (1 <= k <= length) addresses the same text after the call.         *)
(***************************************************************************)
C3_ValidLinesKeepTheirText ==
    call # Idle
        => LET before == readMemoryFile(call.pre)
               after == readMemoryFile(file)
           IN  \A k \in 1..Len(before) : k <= Len(after) /\ after[k] = before[k]

(***************************************************************************)
(* C4: memory_search never returns a line whose computed score is 0:       *)
(* every returned record carries the positive score computed for its line, *)
(* and every line that scores 0 is absent from the result.                 *)
(***************************************************************************)
C4_NoZeroScoreReturned ==
    SearchCompleted
        => LET lines == readMemoryFile(call.pre)
               query == toLowerCase(call.query)
           IN  /\ \A k \in 1..Len(Records) :
                     /\ Records[k].line \in 1..Len(lines)
                     /\ Records[k].score = Score(query, lines[Records[k].line])
                     /\ Records[k].score.num > 0
               /\ \A i \in 1..Len(lines) :
                     Score(query, lines[i]).num = 0 => i \notin RecordLines

\* a search returned a record although another line of the log scores 0
C4_Witness ==
    /\ SearchCompleted
    /\ Len(Records) > 0
    /\ \E i \in 1..Len(readMemoryFile(call.pre)) :
          /\ Len(readMemoryFile(call.pre)[i]) > 0
          /\ Score(toLowerCase(call.query), readMemoryFile(call.pre)[i]).num = 0

(***************************************************************************)
(* C5: the records memory_search returns are ordered by score descending,  *)
(* and records of equal score are in ascending line-number order.          *)
(***************************************************************************)
C5_SortedByScoreThenLine ==
    SearchCompleted
        => \A i, j \in 1..Len(Records) :
              i < j => /\ ~RatLess(Records[i].score, Records[j].score)
                       /\ RatEq(Records[i].score, Records[j].score)
                              => Records[i].line < Records[j].line

\* a result with two records of equal score, and with a later line ranked
\* before an earlier line
C5_Witness ==
    /\ SearchCompleted
    /\ \E i, j \in 1..Len(Records) :
          i < j /\ RatEq(Records[i].score, Records[j].score)
    /\ \E i, j \in 1..Len(Records) :
          i < j /\ Records[i].line > Records[j].line

(***************************************************************************)
(* C6: a line that contains the query scores strictly higher than a line   *)
(* that does not contain it and scores through the fuzzy stage (fuzzy      *)
(* fallback and fuzzy word matching).                                      *)
(***************************************************************************)
ContainsQuery(k) == includes(toLowerCase(Records[k].text), toLowerCase(call.query))

FallbackOnly(k) ==
    /\ ~ContainsQuery(k)
    /\ FuzzyWordScore(toLowerCase(call.query), toLowerCase(Records[k].text)) = 0

C7_NonPositiveMaxResultsDefaults ==
    (call.op = "memory_search"
        /\ (~call.max_results.given \/ call.max_results.val <= 0))
        => call.result = SearchResult(call.pre, call.query, Given(10), call.fs)

(***************************************************************************)
(* C8: on a log built by n appends of single-line texts to an absent file, *)
(* a single-line lookup memory_get(k) returns the k-th appended text when  *)
(* 1 <= k <= n and returns no line when k is outside [1, n]; in particular *)
(* memory_get(n + 1) never returns a line.                                 *)
(***************************************************************************)
C8_SingleLookupWithinAppendedLines ==
    (GetCompleted /\ call.pre = FileAfter(Absent, writes)
        /\ (\A w \in 1..Len(writes) : LineBreaks(writes[w]) = 0)
        /\ Len(ParseLines(call.lines)) = 1)
        => LET k == ParseLines(call.lines)[1]
           IN  IF k \in 1..Len(writes)
               THEN Records = <<[line |-> k, text |-> writes[k]]>>
               ELSE Records = <<>>

(***************************************************************************)
(* C9: when some numbers of the selector are inside [1, length] and some   *)
(* are outside, memory_get succeeds and returns exactly the in-range       *)
(* lines; "2-10" on a log of three lines returns line 2 and line 3.        *)
(***************************************************************************)
SelectedNumbers ==
    LET nums == ParseLines(call.lines) IN {nums[k] : k \in 1..Len(nums)}

NoneInRangeCase ==
    /\ GetCompleted
    /\ SelectedNumbers # {}
    /\ SelectedNumbers \cap (1..Len(readMemoryFile(call.pre))) = {}

IsNoneInRangeOutcome ==
    /\ call.result.msg = "No valid lines found"
    /\ call.result.n = Len(readMemoryFile(call.pre))
    /\ ~call.result.isError
    /\ Records = <<>>
    /\ call.result # InvalidSelectorResult
    /\ call.result.msg # "json"

C10_NoneInRangeReported == NoneInRangeCase => IsNoneInRangeOutcome

(***************************************************************************)
(* C10 as amended: the same, when the backing file exists; without a       *)
(* backing file memory_get returns the no-memory-file notice before it     *)
(* looks at the selector.                                                  *)
(***************************************************************************)
C10_NoneInRangeReportedOnExistingFile ==
    /\ (NoneInRangeCase /\ existsSync(call.pre)) => IsNoneInRangeOutcome
    /\ (NoneInRangeCase /\ ~existsSync(call.pre)) => call.result = NoFileGetResult

\* "50" on a log of three lines
C10_Witness ==
    /\ NoneInRangeCase
    /\ call.lines = StringInput(<<"5", "0">>)
    /\ Len(readMemoryFile(call.pre)) = 3
    /\ IsNoneInRangeOutcome

(***************************************************************************)
(* C11: for every selector that yields no parseable line number and every  *)
(* state of the log, an absent or empty backing file included, memory_get  *)
(* reports InvalidSelector.                                                *)
(***************************************************************************)
NoNumberCase == GetCompleted /\ SelectedNumbers = {}

IsInvalidSelectorOutcome ==
    /\ call.result.msg = "Invalid line specification"
    /\ call.result.isError
    /\ Records = <<>>

C11_NoNumberIsInvalidSelector == NoNumberCase => IsInvalidSelectorOutcome

(***************************************************************************)
(* C11 as amended: the same, when the backing file exists (an empty file   *)
(* included); without a backing file memory_get returns the                *)
(* no-memory-file notice before it looks at the selector.                  *)
(***************************************************************************)
C11_NoNumberIsInvalidSelectorOnExistingFile ==
    /\ (NoNumberCase /\ existsSync(call.pre)) => IsInvalidSelectorOutcome
    /\ (NoNumberCase /\ ~existsSync(call.pre)) => call.result = NoFileGetResult

\* "abc" on an empty backing file
C11_Witness ==
    /\ NoNumberCase
    /\ call.lines = StringInput(<<"a", "b", "c">>)
    /\ call.pre = Present(<<>>)
    /\ IsInvalidSelectorOutcome

(***************************************************************************)
(* C12: a range selector "<start>-<end>" with both integers parseable and  *)
(* start > end (e.g. "3-1") resolves to an empty selector: memory_get      *)
(* treats it as a parsed selector without line numbers, not as an          *)
(* unparseable expression (InvalidSelector).                               *)
(***************************************************************************)
IsReversedRange(linesInput) ==
    /\ linesInput.form = "string"
    /\ includes(trim(linesInput.str), <<"-">>)
    /\ LET parts == split(trim(linesInput.str), "-")
           start == parseInt(trim(parts[1]))
           end == parseInt(trim(parts[2]))
       IN  ~start.nan /\ ~end.nan /\ start.val > end.val

C12_ReversedRangeIsNotInvalidSelector ==
    (GetCompleted /\ existsSync(call.pre) /\ IsReversedRange(call.lines))
        => ~IsInvalidSelectorOutcome

(***************************************************************************)
(* C13: for every selector, in string or array form, the line numbers of   *)
(* the records memory_get returns are strictly ascending and without       *)
(* duplicates, whatever the order and multiplicity of the numbers in the   *)
(* input, and they are the selected numbers that lie in the log; "2,2,5"   *)
(* resolves to 2 and 5.                                                    *)
(***************************************************************************)
C13_RecordsAscendingWithoutDuplicates ==
    GetCompleted
        => /\ \A i, j \in 1..Len(Records) : i < j => Records[i].line < Records[j].line
           /\ call.result.msg = "json"
                  => RecordLines = SelectedNumbers \cap (1..Len(readMemoryFile(call.pre)))

\* "2,2,5" on a log of five lines or more returned line 2 and line 5, each once
C13_Witness ==
    /\ GetCompleted
    /\ call.lines = StringInput(<<"2", ",", "2", ",", "5">>)
    /\ Len(Records) = 2
    /\ Records[1].line = 2
    /\ Records[2].line = 5

(***************************************************************************)
(* C14: a token that cannot be parsed as an integer is dropped without     *)
(* aborting the selector: whenever at least one token of the expression is *)
(* a valid integer, memory_get does not report InvalidSelector, and it     *)
(* reports InvalidSelector only when no token is valid.  (Ranges with      *)
(* start > end are the case of C12 and are left out here.)                 *)
(***************************************************************************)
\* the tokens of a string selector: the parts around "-", else around ","
Tokens(linesInput) ==
    LET trimmed == trim(linesInput.str)
    IN  IF includes(trimmed, <<"-">>) THEN split(trimmed, "-")
        ELSE IF includes(trimmed, <<",">>) THEN split(trimmed, ",")
        ELSE <<trimmed>>

\* the numbers of the tokens that parse
ValidTokenNumbers(linesInput) ==
    LET toks == Tokens(linesInput)
    IN  {parseInt(trim(toks[k])).val : k \in {i \in 1..Len(toks) : ~parseInt(trim(toks[i])).nan}}

StringGetOnExistingFile ==
    GetCompleted /\ existsSync(call.pre) /\ call.lines.form = "string"

C14_ValidTokenPreventsInvalidSelector ==
    (StringGetOnExistingFile /\ ~IsReversedRange(call.lines))
        => (IsInvalidSelectorOutcome <=> ValidTokenNumbers(call.lines) = {})

(***************************************************************************)
(* C14 as amended: in a single-token or comma-separated selector the       *)
(* unparseable tokens are dropped: memory_get resolves the selector to the *)
(* numbers of the valid tokens and reports InvalidSelector only when no    *)
(* token is valid.  In a range selector "<start>-<end>" an unparseable     *)
(* start or end aborts the selector: memory_get reports InvalidSelector    *)
(* although the other bound is a valid integer.                            *)
(***************************************************************************)
IsRangeForm(linesInput) ==
    linesInput.form = "string" /\ includes(trim(linesInput.str), <<"-">>)

C14_UnparseableListTokensDropped ==
    LET valid == ValidTokenNumbers(call.lines)
        inside == valid \cap (1..Len(readMemoryFile(call.pre)))
        toks == Tokens(call.lines)
    IN  /\ (StringGetOnExistingFile /\ ~IsRangeForm(call.lines))
               => /\ IsInvalidSelectorOutcome <=> valid = {}
                  /\ inside # {} => (call.result.msg = "json" /\ RecordLines = inside)
                  /\ (valid # {} /\ inside = {}) => IsNoneInRangeOutcome
        /\ (StringGetOnExistingFile /\ IsRangeForm(call.lines)
               /\ (parseInt(trim(toks[1])).nan \/ parseInt(trim(toks[2])).nan))
               => IsInvalidSelectorOutcome

\* "2,a,5" on a log of five lines or more returned line 2 and line 5
C14_Witness ==
    /\ StringGetOnExistingFile
    /\ call.lines = StringInput(<<"2", ",", "a", ",", "5">>)
    /\ call.result.msg = "json"
    /\ RecordLines = {2, 5}

(***************************************************************************)
(* C15: when no backing file exists, or no line scores positively,         *)
(* memory_search completes as a success without match records (it is not  *)
(* flagged as an error), and reading the log when no backing file exists   *)
(* yields the empty sequence.                                              *)
(***************************************************************************)
NoLineScores ==
    LET lines == readMemoryFile(call.pre)
    IN  \A i \in 1..Len(lines) : ~Positive(Score(toLowerCase(call.query), lines[i]))

C15_EmptyLogAndNoMatchAreSuccess ==
    /\ (call.op = "memory_search" /\ ~existsSync(call.pre))
           => /\ readMemoryFile(call.pre) = <<>>
              /\ ~call.result.isError
              /\ call.result.msg = "No memory file found"
              /\ Records = <<>>
    /\ (call.op = "memory_search" /\ existsSync(call.pre) /\ call.fs = "ok" /\ NoLineScores)
           => /\ ~call.result.isError
              /\ call.result.msg = "No matches found"
              /\ Records = <<>>

\* "aple" on the log a, b, ab: no line scores, the search succeeds without records
C15_Witness ==
    /\ call.op = "memory_search"
    /\ call.query = <<"a", "p", "l", "e">>
    /\ Len(readMemoryFile(call.pre)) = 3
    /\ NoLineScores
    /\ call.result = NoMatchesResult
    /\ ~call.result.isError

(***************************************************************************)
(* C16: on the log "apples are red", "bananas are yellow", "grapes are     *)
(* purple", memory_search("aple") returns the line "apples are red" with a *)
(* positive score obtained through the fuzzy stage, and returns neither of *)
(* the other two lines (their score is 0).                                 *)
(***************************************************************************)
TypoQuery == <<"a", "p", "l", "e">>

TypoSearchOnFruitLog ==
    /\ call.op = "memory_search"
    /\ call.pre = FruitLog
    /\ call.query = TypoQuery
    /\ ~call.max_results.given
    /\ call.fs = "ok"

C16_TypoFindsApplesOnly ==
    TypoSearchOnFruitLog
        => /\ call.result.msg = "json"
           /\ Len(Records) = 1
           /\ Records[1].line = 1
           /\ Records[1].text = ApplesLine
           /\ Positive(Records[1].score)
           /\ ~includes(toLowerCase(ApplesLine), TypoQuery)
           /\ Records[1].score = Score(TypoQuery, ApplesLine)
           /\ Score(TypoQuery, BananasLine) = Zero
           /\ Score(TypoQuery, GrapesLine) = Zero

\* the search for "aple" on the three sentences returned one record
C16_Witness ==
    /\ TypoSearchOnFruitLog
    /\ readMemoryFile(call.pre) = <<ApplesLine, BananasLine, GrapesLine>>
    /\ Len(Records) = 1
    /\ RatEq(Records[1].score, Rat(FuzzyWordBonus, 1))

(***************************************************************************)
(* C17: no operation uses state cached from an earlier call: in a          *)
(* sequential history, a memory_search or memory_get that starts after a   *)
(* memory_write(t) has returned successfully observes the log including t: *)
(* t is retrievable by line number and is scored by search.                *)
(***************************************************************************)
\* the lines on disk when the call started
LinesOnDisk == IF existsSync(call.pre) THEN split(call.pre.content, NL) ELSE <<>>

\* the line numbers at which the text t stands in the log as whole lines
PlacesOf(t) ==
    LET tl == split(t, NL)
    IN  {k \in 1..(Len(LinesOnDisk) - Len(tl) + 1) :
            SubSeq(LinesOnDisk, k, k + Len(tl) - 1) = tl}

ReadStarted == call.op \in {"memory_search", "memory_get"} /\ call.fs = "ok"

ScoringLines ==
    {k \in 1..Len(LinesOnDisk) : Positive(Score(toLowerCase(call.query), LinesOnDisk[k]))}

C17_ReadsObserveEveryReturnedWrite ==
    ReadStarted
        => /\ call.pre = file
           /\ \A w \in 1..Len(writes) : PlacesOf(writes[w]) # {}
           /\ call.op = "memory_get"
                  => /\ RecordLines = SelectedNumbers \cap (1..Len(LinesOnDisk))
                     /\ \A r \in 1..Len(Records) :
                           Records[r].text = LinesOnDisk[Records[r].line]
           /\ (call.op = "memory_search" /\ ~call.max_results.given
                   /\ Cardinality(ScoringLines) <= DefaultMaxResults)
                  => /\ RecordLines = ScoringLines
                     /\ \A r \in 1..Len(Records) :
                           Records[r].text = LinesOnDisk[Records[r].line]

\* after a write of a non-empty text has returned, a memory_get returned that text
\* under the line number at which it stands
C17_Witness ==
    /\ ReadStarted
    /\ call.op = "memory_get"
    /\ Len(writes) > 0
    /\ Len(writes[Len(writes)]) > 0
    /\ \E r \in 1..Len(Records) :
          /\ Records[r].text = writes[Len(writes)]
          /\ Records[r].line \in PlacesOf(writes[Len(writes)])
          /\ Records[r].line > Len(LinesOnDisk) - 2


(***************************************************************************)
(* C18: when two writers run memory_write concurrently, their fs calls in  *)
(* any order, every line of the log they leave is one writer's whole text  *)
(* or a line that was in the log before; no line is a part or a mixture of *)
(* the written texts.  Empty lines are left aside here: the statement is   *)
(* about the lines that carry text.                                        *)
(***************************************************************************)
\* the lines of a content: what stands before each "\n", and the rest if any
LogLines(content) ==
    LET all == split(content, NL)
    IN  IF endsWith(content, NL) THEN SubSeq(all, 1, Len(all) - 1) ELSE all

WritersReturned == \A w \in Writers : running.proc[w].pc = "returned"

WrittenTexts == { running.proc[w].text : w \in Writers }

LinesBefore ==
    IF running.initial.exists
    THEN { LogLines(running.initial.content)[k] :
               k \in 1..Len(LogLines(running.initial.content)) }
    ELSE {}

C18_ConcurrentWritersKeepLinesWhole ==
    WritersReturned
        => \A k \in 1..Len(LogLines(file.content)) :
               \/ LogLines(file.content)[k] = <<>>
               \/ LogLines(file.content)[k] \in WrittenTexts \cup LinesBefore

(***************************************************************************)
(* C19: a reader racing one memory_write gets the lines of the log before  *)
(* that write or the lines of the log after it, nothing else.              *)
(***************************************************************************)
OneWriter(w) ==
    /\ running.proc[w].pc # "idle"
    /\ \A v \in Writers \ {w} : running.proc[v].pc = "idle"

C19_ReaderSeesLogBeforeOrAfterTheWrite ==
    \A r \in Readers, w \in Writers :
            (running.proc[r].pc = "returned" /\ OneWriter(w))
                => running.proc[r].lines \in
                       { readMemoryFile(running.initial),
                         readMemoryFile(WrittenFile(running.initial, running.proc[w].text)) }

(***************************************************************************)
(* C20: every failure kind of the memory operations (the backing file      *)
(* cannot be read or written, a selector without a parseable number, a     *)
(* selector or a single lookup without a number inside the log) comes back *)
(* to the caller as a result with the error flag set.                      *)
(***************************************************************************)
StoreFailure ==
    \/ call.op = "memory_write" /\ call.fs = "throws"
    \/ call.op \in {"memory_search", "memory_get"}
           /\ existsSync(call.pre) /\ call.fs = "throws"

GetOnExistingFile == call.op = "memory_get" /\ existsSync(call.pre) /\ call.fs = "ok"

NoParseableNumber == GetOnExistingFile /\ Len(ParseLines(call.lines)) = 0

NoNumberInRange ==
    /\ GetOnExistingFile
    /\ Len(ParseLines(call.lines)) > 0
    /\ Len(Retrieve(uniqueLines(ParseLines(call.lines)), readMemoryFile(call.pre))) = 0

C20_EveryFailureKindIsFlagged ==
    (StoreFailure \/ NoParseableNumber \/ NoNumberInRange) => call.result.isError

(***************************************************************************)
(* C21: for a positive max_results = K, memory_search returns exactly      *)
(* min(K, m) records, m being the number of lines with a positive score,   *)
(* and they are the first of the ranking: no line left out ranks before a  *)
(* returned record (a higher score, or the same score and an earlier       *)
(* line).                                                                  *)
(***************************************************************************)
PositiveMaxResults ==
    /\ SearchCompleted
    /\ existsSync(call.pre)
    /\ call.max_results.given
    /\ call.max_results.val > 0

ScoringLineNumbers ==
    {i \in 1..Len(readMemoryFile(call.pre)) :
        Positive(Score(toLowerCase(call.query), readMemoryFile(call.pre)[i]))}

\* line i, with score s, comes before the record r in the ranking
RanksBefore(i, s, r) ==
    \/ RatLess(r.score, s)
    \/ RatEq(r.score, s) /\ i < r.line

C21_FirstKOfTheRanking ==
    PositiveMaxResults
        => /\ Len(Records) = Min2(call.max_results.val, Cardinality(ScoringLineNumbers))
           /\ RecordLines \subseteq ScoringLineNumbers
           /\ \A i \in ScoringLineNumbers \ RecordLines :
                 \A k \in 1..Len(Records) :
                     ~RanksBefore(i, Score(toLowerCase(call.query),
                                           readMemoryFile(call.pre)[i]), Records[k])

\* a search that truncates: more lines score than max_results allows
C21_Witness ==
    /\ PositiveMaxResults
    /\ Cardinality(ScoringLineNumbers) > call.max_results.val
    /\ Len(Records) = call.max_results.val

(***************************************************************************)
(* C22: a returned line whose lower-cased text contains the lower-cased    *)
(* query has the score 10 + 5 * (pairs of a query word and a line word     *)
(* that are identical) + 2 * (pairs that are not identical and where one   *)
(* word contains the other), the words being the pieces between runs of    *)
(* whitespace; the distance-based stage adds nothing to it.                *)
(***************************************************************************)
IdenticalPairs(qs, ws) == {p \in (1..Len(qs)) \X (1..Len(ws)) : qs[p[1]] = ws[p[2]]}

ContainingPairs(qs, ws) ==
    {p \in (1..Len(qs)) \X (1..Len(ws)) :
        /\ qs[p[1]] # ws[p[2]]
        /\ includes(ws[p[2]], qs[p[1]]) \/ includes(qs[p[1]], ws[p[2]])}

C22_ExactStageScore ==
    SearchCompleted
        => \A k \in 1..Len(Records) :
              ContainsQuery(k)
                  => LET qs == splitWords(toLowerCase(call.query))
                         ws == splitWords(toLowerCase(Records[k].text))
                     IN  /\ Records[k].text = readMemoryFile(call.pre)[Records[k].line]
                         /\ Records[k].score.den = 1
                         /\ Records[k].score.num =
                                10 + 5 * Cardinality(IdenticalPairs(qs, ws))
                                   + 2 * Cardinality(ContainingPairs(qs, ws))

\* a record with an identical pair, a record with a containing pair, and a record
\* to which the distance-based stage would have added something
C22_Witness ==
    /\ SearchCompleted
    /\ \E k \in 1..Len(Records) :
          /\ ContainsQuery(k)
          /\ IdenticalPairs(splitWords(toLowerCase(call.query)),
                            splitWords(toLowerCase(Records[k].text))) # {}
          /\ FuzzyWordScore(toLowerCase(call.query), toLowerCase(Records[k].text)) > 0
    /\ \E k \in 1..Len(Records) :
          /\ ContainsQuery(k)
          /\ ContainingPairs(splitWords(toLowerCase(call.query)),
                             splitWords(toLowerCase(Records[k].text))) # {}

(***************************************************************************)
(* C23: a line that does not contain the query has the score               *)
(* F + 2 * (pairs of a query word and a line word whose edit distance      *)
(* divided by the length of the longer word is below 0.4), with F = 3 *    *)
(* similarity when similarity > 0.5 and 0 otherwise, and similarity =      *)
(* 1 - distance(first 100 of line, first 100 of query) / max of the two    *)
(* lengths.  A similarity of exactly 0.5 and a ratio of exactly 0.4 add    *)
(* nothing.  A line is returned with this score when it is positive and    *)
(* left out when it is zero.                                               *)
(***************************************************************************)
\* similarity as the fraction (maxLen - d) / maxLen
SimilarityOf(q, l) ==
    LET maxLen == Max2(Len(l), Len(q))
    IN  Rat(maxLen - distance(SubSeq(l, 1, Min2(100, Len(l))), SubSeq(q, 1, Min2(100, Len(q)))),
            maxLen)

\* distance / longer length, as a fraction; the pair of two empty words has none
RatioOf(qw, lw) == Rat(distance(qw, lw), Max2(Len(qw), Len(lw)))

ClosePairs(q, l) ==
    LET qs == splitWords(q)
        ls == splitWords(l)
    IN  {p \in (1..Len(qs)) \X (1..Len(ls)) :
            /\ Max2(Len(qs[p[1]]), Len(ls[p[2]])) > 0
            /\ RatLess(RatioOf(qs[p[1]], ls[p[2]]), Rat(2, 5))}

FuzzyStageScore(q, l) ==
    LET sim == SimilarityOf(q, l)
        F == IF RatLess(Rat(1, 2), sim) THEN Rat(3 * sim.num, sim.den) ELSE Zero
    IN  Rat(F.num + 2 * Cardinality(ClosePairs(q, l)) * F.den, F.den)

\* a search on an existing file that returns every line with a positive score
UntruncatedSearch ==
    /\ SearchCompleted
    /\ existsSync(call.pre)
    /\ call.max_results \in {Missing, Given(10)}

C23_FuzzyStageScore ==
    UntruncatedSearch
        => LET q == toLowerCase(call.query)
               lines == readMemoryFile(call.pre)
           IN  \A i \in 1..Len(lines) :
                  ~includes(toLowerCase(lines[i]), q)
                      => IF i \in RecordLines
                         THEN \E k \in 1..Len(Records) :
                                 /\ Records[k].line = i
                                 /\ RatEq(Records[k].score,
                                          FuzzyStageScore(q, toLowerCase(lines[i])))
                         ELSE FuzzyStageScore(q, toLowerCase(lines[i])).num = 0

\* a line with a word at exactly 0.4 from a query word, which earns nothing
C23_Witness ==
    /\ UntruncatedSearch
    /\ LET q == toLowerCase(call.query)
           lines == readMemoryFile(call.pre)
       IN  \E i \in 1..Len(lines) :
              /\ ~includes(toLowerCase(lines[i]), q)
              /\ i \notin RecordLines
              /\ \E qw \in {splitWords(q)[k] : k \in 1..Len(splitWords(q))},
                    lw \in {splitWords(toLowerCase(lines[i]))[k] :
                               k \in 1..Len(splitWords(toLowerCase(lines[i])))} :
                     /\ Len(lw) > 0
                     /\ RatEq(RatioOf(qw, lw), Rat(2, 5))

(***************************************************************************)
(* C24: what a line has after its first 100 characters does not count in   *)
(* the distance-based stage: two lines that do not contain the query and   *)
(* agree on their first 100 characters get the same score.                 *)
(***************************************************************************)
First100(l) == SubSeq(l, 1, Min2(100, Len(l)))

C24_BeyondFirst100Invisible ==
    (call.op = "memory_search" /\ call.fs = "ok")
        => LET q == toLowerCase(call.query)
               lines == readMemoryFile(call.pre)
           IN  \A i, j \in 1..Len(lines) :
                  (/\ ~includes(toLowerCase(lines[i]), q)
                   /\ ~includes(toLowerCase(lines[j]), q)
                   /\ First100(lines[i]) = First100(lines[j]))
                      => RatEq(Score(q, lines[i]), Score(q, lines[j]))

(***************************************************************************)
(* C25: every record (line n, text x) that memory_search returns has n in  *)
(* 1..length of the log, and memory_get of n on the same file, as the      *)
(* string of its digits or as a one-element array, returns the one record  *)
(* (n, x).                                                                 *)
(***************************************************************************)
RECURSIVE DecimalString(_)
DecimalString(n) ==
    IF n < 10 THEN <<Digits[n + 1]>>
    ELSE DecimalString(n \div 10) \o <<Digits[(n % 10) + 1]>>

C25_SearchLineNumbersAddressTheSameText ==
    (SearchCompleted /\ file = call.pre)
        => \A k \in 1..Len(Records) :
              LET n == Records[k].line
                  x == Records[k].text
              IN  /\ n \in 1..Len(readMemoryFile(file))
                  /\ GetResult(file, StringInput(DecimalString(n)), "ok").records
                         = <<[line |-> n, text |-> x]>>
                  /\ GetResult(file, ArrayInput(<<n>>), "ok").records
                         = <<[line |-> n, text |-> x]>>

\* a search that returns a line other than the first, with text
C25_Witness ==
    /\ SearchCompleted
    /\ file = call.pre
    /\ \E k \in 1..Len(Records) : Records[k].line > 1 /\ Len(Records[k].text) > 0

(***************************************************************************)
(* C26: memory_search and memory_get are read-only: whatever they return   *)
(* (records, no file, no match, invalid selector, none in range, error),   *)
(* the backing file exists or not as before and has the content it had;    *)
(* a step that changes the file is a memory_write.                         *)
(***************************************************************************)
C26_ReadsLeaveTheFileAlone ==
    [][/\ (call = Idle /\ call'.op \in {"memory_search", "memory_get"}) => file' = file
       /\ file' # file => (call = Idle /\ call'.op = "memory_write")]_vars

\* a memory_get that found no file: the file is still absent when it returns
C26_Witness ==
    /\ call.op = "memory_get"
    /\ ~existsSync(call.pre)
    /\ call.result = NoFileGetResult
    /\ ~existsSync(file)

(***************************************************************************)
(* C27: after every successful memory_write, whatever the file was, the    *)
(* content of the file ends with a line terminator; so once a write has    *)
(* succeeded, from an absent file as from any other, the sequence          *)
(* readMemoryFile returns is not empty and its last element is the empty   *)
(* string.                                                                 *)
(***************************************************************************)
C27_FileEndsWithLineTerminator ==
    /\ WriteSucceeded => (existsSync(file) /\ endsWith(file.content, NL))
    /\ Len(writes) > 0
           => LET lines == readMemoryFile(file)
              IN  Len(lines) > 0 /\ lines[Len(lines)] = <<>>

\* the second of two appends of text to a file that was absent
C27_Witness ==
    /\ WriteSucceeded
    /\ Len(writes) = 2
    /\ Len(writes[1]) > 0 /\ Len(writes[2]) > 0
    /\ file = FileAfter(Absent, writes)
    /\ Len(readMemoryFile(file)) = 3

(***************************************************************************)
(* C28: no append is lost under concurrent writers: when two memory_write  *)
(* calls have run with their fs calls in any order, the file absent at the *)
(* start included, and both have returned, each of the two texts is a line *)
(* of the log.                                                             *)
(***************************************************************************)
C28_NoAppendLost ==
    WritersReturned
        => \A w \in Writers :
              \E k \in 1..Len(LogLines(file.content)) :
                  LogLines(file.content)[k] = running.proc[w].text

(***************************************************************************)
(* C29: in web_content a browser that was launched is closed before the    *)
(* call returns, on the success path and on every failure path (newPage,   *)
(* goto or evaluate rejected, the first close rejected): the call never    *)
(* returns while the chromium process it launched is open.                 *)
(***************************************************************************)
WebReturned == call.op = "web_content" /\ call.pc = "returned"

C29_LaunchedBrowserClosedOnReturn ==
    WebReturned => call.process # "open"
=============================================================================
